---- MODULE Spec2Model ----
(***************************************************************************)
(* Conversation orchestration of the MCP command-line chat:                *)
(*   core/chat.py      Chat.run            the turn loop                   *)
(*   core/cli_chat.py  CliChat             command and query pre-processing*)
(*   core/tools.py     ToolManager         catalog, resolution, execution  *)
(*   core/bedrock.py   Bedrock             the model backend adapter       *)
(*   main.py           main                registration order of sessions  *)
(*   03-roots/core/cli.py     CliApp.run   the streaming event handler     *)
(*   03-roots/core/claude.py  Claude       chat_stream                     *)
(*   03-roots/mcp_client.py    MCPClient   connect, requests, cleanup      *)
(*   03-roots/mcp_server.py    read_dir, convert_video, is_path_allowed    *)
(*   04_streaming_and_tasks/basic_streaming_agent.py  execute              *)
(* One run() is a process whose position is pc; it suspends at every await *)
(* (backend call, list_tools, call_tool), which is where the actions cut.  *)
(***************************************************************************)
EXTENDS Integers, Sequences, FiniteSets, TLC

\* ------------------------------------------------------------------ bounds
MaxTurns == 4      \* turns in the conversation log
MaxParts == 3      \* parts of the response a round of tool requests starts from
MaxEvents == 4     \* stream events handled after one user input

VARIABLES
  messages,            \* Chat.messages: the conversation log
  pc,                  \* position of run(): "awaiting", "sending", "tool_round"
  response,            \* run(): the local variable response
  req_idx,             \* execute_tool_requests: position of the for loop
  tool_result_parts,   \* execute_tool_requests: the list being built
  final_text_response, \* run(): the value returned by the last run()
  next_id,             \* the backend's supply of fresh toolUseIds
  outcome,             \* how the last run() ended: "none", "final", "raised"
  raised_in,           \* the call that raised out of the last run()
  query,               \* the argument of the current (or last) run()
  prompt,              \* what get_prompt returned to the current run()
  calls_in_run,        \* Bedrock.chat calls made by the current run()
  catalog,             \* the tools handed to the last Bedrock.chat call
  sent,                \* the messages handed to the last Bedrock.chat call of the run
  last_call,           \* the last iteration of execute_tool_requests
  cli_pc,              \* position of CliApp.run: "prompt", "streaming", "exited"
  tool_calls,          \* CliApp.run: the dict tool_calls of handle_event
  response_text,       \* CliApp.run: the string response_text of handle_event
  display,             \* what has been printed since the last user input
  events,              \* the events yielded since the last user input
  emitted,             \* the tool calls shown since the last user input
  _session,            \* MCPClient._session: a session id, or NoSession
  _exit_stack,         \* MCPClient._exit_stack: the contexts entered, in order
  connects,            \* the connect() calls made so far
  closed,              \* the sessions whose context has been exited
  phase,               \* "new", "connected" (connect called since the last
                       \* cleanup) or "cleaned" (cleanup called, no connect since)
  last_op,             \* the last operation on the client and how it ended
  server_call,         \* the last tool call on the roots server and how it ended
  exec_pc,             \* position of BasicStreamingExecutor.execute
  exec_i,              \* execute: the loop variable i
  event_queue,         \* the events execute has put on its event queue
  current_task,        \* context.current_task of the request being executed
  user_input,          \* context.get_user_input() of that request
  received,            \* test_basic_streaming: events read from the stream
  client_pc,           \* test_basic_streaming: "reading" or "ended"
  shown                \* test_basic_streaming: the lines printed for the events

chat_vars == <<messages, pc, response, req_idx, tool_result_parts,
               final_text_response, next_id, outcome, raised_in, query,
               prompt, calls_in_run, catalog, sent, last_call>>

stream_vars == <<cli_pc, tool_calls, response_text, display, events, emitted>>

client_vars == <<_session, _exit_stack, connects, closed, phase, last_op>>

roots_vars == <<server_call>>

exec_vars == <<exec_pc, exec_i, event_queue, current_task, user_input,
               received, client_pc, shown>>

aux_vars == <<client_vars, roots_vars, exec_vars>>

vars == <<chat_vars, stream_vars, aux_vars>>

\* ------------------------------------------------------- sessions (main.py)
\* clients is a dict filled in this order; dicts iterate in insertion order.
Clients == <<"doc_client", "client_0">>

ClientSet == {Clients[i] : i \in 1..Len(Clients)}

\* The tools each session's server exposes, in the order it lists them.
\* "read_doc" is exposed by both sessions, "add" by the second only and
\* "missing" by none.
ServerTools(client) ==
  IF client = "doc_client" THEN <<"read_doc">> ELSE <<"read_doc", "add">>

ToolNames == {"read_doc", "add", "missing"}

NoClient == "None"
Raised == "raise"

\* MCPClient.list_tools: the session's tools, or an exception when the
\* session does not answer; down is the set of sessions that do not answer
\* at the moment of the call.
list_tools(client, down) ==
  IF client \notin down THEN [raised |-> FALSE, tools |-> ServerTools(client)]
  ELSE [raised |-> TRUE, tools |-> <<>>]

SeqToSet(s) == {s[i] : i \in 1..Len(s)}

\* ------------------------------------------------------ ToolManager (tools.py)
RECURSIVE get_all_tools(_, _)
get_all_tools(clients, down) ==
  IF clients = <<>> THEN [raised |-> FALSE, tools |-> <<>>]
  ELSE LET listed == list_tools(Head(clients), down) IN
       IF listed.raised THEN [raised |-> TRUE, tools |-> <<>>]
       ELSE LET rest == get_all_tools(Tail(clients), down) IN
            IF rest.raised THEN rest
            ELSE [raised |-> FALSE, tools |-> listed.tools \o rest.tools]

RECURSIVE _find_client_with_tool_last(_, _, _)
\* A faulty resolution: the last session that lists the name wins.
_find_client_with_tool_last(clients, tool_name, down) ==
  IF clients = <<>> THEN NoClient
  ELSE LET listed == list_tools(clients[Len(clients)], down) IN
       IF listed.raised THEN Raised
       ELSE IF tool_name \in SeqToSet(listed.tools) THEN clients[Len(clients)]
       ELSE _find_client_with_tool_last(SubSeq(clients, 1, Len(clients) - 1),
                                        tool_name, down)

RECURSIVE _find_client_with_tool(_, _, _)
_find_client_with_tool(clients, tool_name, down) ==
  IF clients = <<>> THEN NoClient
  ELSE LET listed == list_tools(Head(clients), down) IN
       IF listed.raised THEN Raised
       ELSE IF tool_name \in SeqToSet(listed.tools) THEN Head(clients)
       ELSE _find_client_with_tool(Tail(clients), tool_name, down)

_build_tool_result_part(tool_use_id, text, status) ==
  [toolResult |-> [toolUseId |-> tool_use_id,
                   content |-> <<[text |-> text]>>,
                   status |-> status]]

\* ----------------------------------------------------------- text helpers
RECURSIVE JoinWith(_, _)
\* sep.join(strs)
JoinWith(sep, strs) ==
  IF strs = <<>> THEN ""
  ELSE IF Len(strs) = 1 THEN strs[1]
  ELSE strs[1] \o sep \o JoinWith(sep, Tail(strs))

RECURSIVE SplitFrom(_, _, _)
\* str.split(): the maximal runs of non-blank characters of s from position i
\* on, cur being the run read so far.
SplitFrom(s, i, cur) ==
  IF i > Len(s) THEN (IF cur = "" THEN <<>> ELSE <<cur>>)
  ELSE IF SubSeq(s, i, i) = " "
       THEN (IF cur = "" THEN <<>> ELSE <<cur>>) \o SplitFrom(s, i + 1, "")
       ELSE SplitFrom(s, i + 1, cur \o SubSeq(s, i, i))

split(s) == SplitFrom(s, 1, "")

startswith(s, prefix) ==
  Len(s) >= Len(prefix) /\ SubSeq(s, 1, Len(prefix)) = prefix

RECURSIVE RemoveFrom(_, _, _)
RemoveFrom(s, ch, i) ==
  IF i > Len(s) THEN ""
  ELSE (IF SubSeq(s, i, i) = ch THEN "" ELSE SubSeq(s, i, i))
       \o RemoveFrom(s, ch, i + 1)

\* s.replace(ch, "")
remove(s, ch) == RemoveFrom(s, ch, 1)

Quoted(s) == "\"" \o s \o "\""

RECURSIVE QuoteAll(_)
QuoteAll(strs) ==
  IF strs = <<>> THEN <<>> ELSE <<Quoted(Head(strs))>> \o QuoteAll(Tail(strs))

\* json.dumps of a list of strings (the strings here need no escaping)
json_dumps_list(strs) == "[" \o JoinWith(", ", QuoteAll(strs)) \o "]"

\* json.dumps({"error": msg})
json_dumps_error(msg) == "{\"error\": " \o Quoted(msg) \o "}"

RECURSIVE SelectParts(_, _)
\* [part for part in parts if key in part]
SelectParts(parts, key) ==
  IF parts = <<>> THEN <<>>
  ELSE (IF key \in DOMAIN Head(parts) THEN <<Head(parts)>> ELSE <<>>)
       \o SelectParts(Tail(parts), key)

\* ---------------------------------------------------- tool outcomes (MCP)
TextItem(t) == [type |-> "text", text |-> t]
ImageItem == [type |-> "image", text |-> ""]

\* What MCPClient.call_tool can do: raise e, return None, or return a
\* CallToolResult {content, isError}.
CallRaises(e) ==
  [raises |-> TRUE, e |-> e, isNone |-> FALSE, content |-> <<>>, isError |-> FALSE]
CallNone ==
  [raises |-> FALSE, e |-> "", isNone |-> TRUE, content |-> <<>>, isError |-> FALSE]
CallResult(content, isError) ==
  [raises |-> FALSE, e |-> "", isNone |-> FALSE, content |-> content,
   isError |-> isError]

CallOutcomes ==
  { CallRaises("boom"),
    CallNone,
    CallResult(<<ImageItem, TextItem("ok")>>, FALSE),
    CallResult(<<TextItem("a"), ImageItem, TextItem("b")>>, FALSE),
    CallResult(<<TextItem("bad")>>, TRUE) }

\* The outcomes the conversations are run with.
ChatCallOutcomes ==
  { CallRaises("boom"), CallResult(<<ImageItem, TextItem("ok")>>, FALSE) }

RECURSIVE TextsOf(_)
\* [item.text for item in items if isinstance(item, TextContent)]
TextsOf(items) ==
  IF items = <<>> THEN <<>>
  ELSE (IF Head(items).type = "text" THEN <<Head(items).text>> ELSE <<>>)
       \o TextsOf(Tail(items))

\* The value standing for "call_tool was not called, or did not return".
NoOutput ==
  [raises |-> FALSE, e |-> "not called", isNone |-> FALSE, content |-> <<>>,
   isError |-> FALSE]

NoCall ==
  [id |-> 0, name |-> "", client |-> NoClient, how |-> "none",
   out |-> NoOutput]

\* The three ways an iteration of the for loop of execute_tool_requests adds
\* to results (tool_result_parts so far); call tells the request's id and
\* name, the session resolved for it and how the iteration ended.

\* A faulty handling of an unknown tool: the lookup failure is raised.
tool_not_found_raises(results, call) ==
  [raised |-> TRUE, results |-> results,
   call |-> [call EXCEPT !.how = "not_found"]]

\* "if not client": the error part is appended and the loop continues.
tool_not_found(results, call) ==
  [raised |-> FALSE,
   results |-> Append(results,
      _build_tool_result_part(call.id, "Could not find that tool", "error")),
   call |-> [call EXCEPT !.how = "not_found"]]

\* A faulty handling of a failing tool: the exception is not caught.
call_tool_raised_propagates(results, call, e) ==
  [raised |-> TRUE, results |-> results,
   call |-> [call EXCEPT !.how = "call_raised"]]

\* "except Exception as e": call_tool raised e.
call_tool_raised(results, call, e) ==
  LET error_message == "Error executing tool '" \o call.name \o "': " \o e
  IN [raised |-> FALSE,
      results |-> Append(results,
         [toolResult |-> [toolUseId |-> call.id,
            content |-> <<[text |-> json_dumps_error(error_message)]>>,
            status |-> "error"]]),
      call |-> [call EXCEPT !.how = "call_raised"]]

\* A faulty try block: the items that are not TextContent are serialized
\* too.
call_tool_returned_unfiltered(results, call, out) ==
  LET items == IF out.isNone THEN <<>> ELSE out.content
      content_json == json_dumps_list([k \in 1..Len(items) |-> items[k].text])
  IN [raised |-> FALSE,
      results |-> Append(results,
         _build_tool_result_part(call.id, content_json,
            IF ~out.isNone /\ out.isError THEN "error" ELSE "success")),
      call |-> [call EXCEPT !.how = "call_returned", !.out = out]]

\* the try block: call_tool returned out (None or a CallToolResult).
call_tool_returned(results, call, out) ==
  LET items == IF out.isNone THEN <<>> ELSE out.content
      content_json == json_dumps_list(TextsOf(items))
  IN [raised |-> FALSE,
      results |-> Append(results,
         _build_tool_result_part(call.id, content_json,
            IF ~out.isNone /\ out.isError THEN "error" ELSE "success")),
      call |-> [call EXCEPT !.how = "call_returned", !.out = out]]

\* One iteration of the for loop of execute_tool_requests on tool_request,
\* down being the sessions that do not answer list_tools and out what
\* call_tool does if it is called.  A toolUse block of the backend always
\* carries its id and name, so "if not tool_use: continue" never skips.
\* An exception of list_tools during the resolution is not caught.
execute_tool_request(results, tool_request, down, out) ==
  LET tool_use == tool_request.toolUse
      tool_use_id == tool_use.toolUseId
      tool_name == tool_use.name
      client == _find_client_with_tool(Clients, tool_name, down)
      call == [id |-> tool_use_id, name |-> tool_name, client |-> NoClient,
               how |-> "none", out |-> NoOutput]
  IN IF client = Raised
     THEN [raised |-> TRUE, results |-> results,
           call |-> [call EXCEPT !.how = "resolve_raised"]]
     ELSE IF client = NoClient
     THEN tool_not_found(results, call)
     ELSE IF out.raises
     THEN call_tool_raised(results, [call EXCEPT !.client = client], out.e)
     ELSE call_tool_returned(results, [call EXCEPT !.client = client], out)

\* ------------------------------------------------------- Bedrock (bedrock.py)
\* A faulty add_user_message: the message is put in front of the log.
add_user_message_front(msgs, content) ==
  <<[role |-> "user", content |-> content]>> \o msgs

add_user_message(msgs, content) ==
  Append(msgs, [role |-> "user", content |-> content])

add_assistant_message(msgs, content) ==
  Append(msgs, [role |-> "assistant", content |-> content])

RECURSIVE TextParts(_)
\* [p.get("text", "") for p in output_content if "text" in p]
TextParts(parts) ==
  IF parts = <<>> THEN <<>>
  ELSE (IF "text" \in DOMAIN Head(parts) THEN <<Head(parts).text>> ELSE <<>>)
       \o TextParts(Tail(parts))

\* Bedrock.chat after converse() has returned raw
chat(raw) ==
  [parts |-> raw.content,
   stop_reason |-> raw.stopReason,
   text |-> JoinWith("\n", TextParts(raw.content))]

RECURSIVE to_bedrock_messages_unfiltered(_)
\* A faulty conversion: messages without text content are kept.
to_bedrock_messages_unfiltered(prompt_messages) ==
  IF prompt_messages = <<>> THEN <<>>
  ELSE <<[role |-> Head(prompt_messages).role,
          content |-> <<[text |-> Head(prompt_messages).content.text]>>]>>
       \o to_bedrock_messages_unfiltered(Tail(prompt_messages))

RECURSIVE to_bedrock_messages(_)
to_bedrock_messages(prompt_messages) ==
  IF prompt_messages = <<>> THEN <<>>
  ELSE LET m == Head(prompt_messages) IN
       (IF m.content.type = "text"
        THEN <<[role |-> m.role, content |-> <<[text |-> m.content.text]>>]>>
        ELSE <<>>)
       \o to_bedrock_messages(Tail(prompt_messages))

\* ------------------------------------------------------ CliChat (cli_chat.py)
\* The documents of the doc_client's server.
DocIds == <<"doc42">>
DocContent(doc_id) == "text of " \o doc_id

TextContent(t) == [type |-> "text", text |-> t]
ImageContent == [type |-> "image", text |-> ""]
PromptMessage(role, content) == [role |-> role, content |-> content]

\* What the doc_client's get_prompt can return.
PromptTemplates ==
  { <<PromptMessage("user", TextContent("Summarize the document"))>>,
    <<PromptMessage("user", TextContent("Summarize the document")),
      PromptMessage("assistant", TextContent("Which part?"))>>,
    <<PromptMessage("user", ImageContent)>> }

\* What the user types.
Queries == {"see @doc42", "/summary doc42", "/summary"}

RECURSIVE Mentions(_)
\* [word[1:] for word in words if word.startswith("@")]
Mentions(words) ==
  IF words = <<>> THEN <<>>
  ELSE (IF startswith(Head(words), "@")
        THEN <<SubSeq(Head(words), 2, Len(Head(words)))>> ELSE <<>>)
       \o Mentions(Tail(words))

RECURSIVE MentionedDocs(_, _)
MentionedDocs(doc_ids, mentions) ==
  IF doc_ids = <<>> THEN ""
  ELSE (IF Head(doc_ids) \in SeqToSet(mentions)
        THEN "\n<document id=\"" \o Head(doc_ids) \o "\">\n"
             \o DocContent(Head(doc_ids)) \o "\n</document>\n"
        ELSE "")
       \o MentionedDocs(Tail(doc_ids), mentions)

\* CliChat._extract_resources: raises when the doc_client does not answer
\* read_resource.
_extract_resources(q, down) ==
  IF "doc_client" \in down THEN [raised |-> TRUE, text |-> ""]
  ELSE [raised |-> FALSE, text |-> MentionedDocs(DocIds, Mentions(split(q)))]

\* CliChat._process_command, template being what get_prompt returns when the
\* doc_client answers: handled tells whether the query was a command.
\* A faulty command processing: the input is logged as a user turn before
\* the prompt is fetched.
_process_command_logs_first(msgs, q, template, down) ==
  IF ~startswith(q, "/")
  THEN [raised |-> FALSE, handled |-> FALSE, messages |-> msgs, prompt |-> <<>>]
  ELSE LET words == split(q)
           logged == Append(msgs, [role |-> "user", content |-> <<[text |-> q]>>])
       IN IF Len(words) < 2 \/ "doc_client" \in down
          THEN [raised |-> TRUE, handled |-> FALSE, messages |-> logged,
                prompt |-> <<>>]
          ELSE [raised |-> FALSE, handled |-> TRUE,
                messages |-> logged \o to_bedrock_messages(template),
                prompt |-> template]

_process_command(msgs, q, template, down) ==
  IF ~startswith(q, "/")
  THEN [raised |-> FALSE, handled |-> FALSE, messages |-> msgs, prompt |-> <<>>]
  ELSE LET words == split(q)
           command == remove(words[1], "/")
       IN IF Len(words) < 2 \/ "doc_client" \in down
          THEN [raised |-> TRUE, handled |-> FALSE, messages |-> msgs,
                prompt |-> <<>>]
          ELSE [raised |-> FALSE, handled |-> TRUE,
                messages |-> msgs \o to_bedrock_messages(template),
                prompt |-> template]

\* CliChat._process_query (the instruction text of the prompt is shortened)
_process_query(msgs, q, template, down) ==
  LET cmd == _process_command(msgs, q, template, down) IN
  IF cmd.raised \/ cmd.handled THEN cmd
  ELSE LET added_resources == _extract_resources(q, down) IN
       IF added_resources.raised
       THEN [raised |-> TRUE, handled |-> FALSE, messages |-> msgs,
             prompt |-> <<>>]
       ELSE [raised |-> FALSE, handled |-> FALSE,
             messages |-> Append(msgs,
                [role |-> "user",
                 content |-> <<[text |->
                    "The user has a question:\n<query>\n" \o q
                    \o "\n</query>\n<context>\n" \o added_resources.text
                    \o "\n</context>"]>>]),
             prompt |-> <<>>]

\* ------------------------------------------------------ the model backend
StopReasons == {"tool_use", "end_turn"}

PartKinds == {"text"} \cup ToolNames

\* A shape is the sequence of the kinds of a response's parts: every shape
\* of up to MaxParts parts, and the ones the conversations are run with.
Shapes == UNION {[1..n -> PartKinds] : n \in 0..MaxParts}

ChatShapes ==
  { <<>>, <<"text">>, <<"read_doc">>, <<"text", "add">>,
    <<"missing", "read_doc">> }

ToolUsesBefore(shape, i) == Cardinality({j \in 1..(i - 1) : shape[j] # "text"})

\* The content of a converse() response of the given shape; the backend
\* gives every toolUse block a fresh id.
MakeParts(shape, first_id) ==
  [i \in 1..Len(shape) |->
     IF shape[i] = "text" THEN [text |-> "hi"]
     ELSE [toolUse |-> [toolUseId |-> first_id + ToolUsesBefore(shape, i),
                        name |-> shape[i],
                        input |-> "{}"]]]

RawResponses(shapes, first_id) ==
  {[content |-> MakeParts(shape, first_id), stopReason |-> s] :
     shape \in shapes, s \in StopReasons}

NoResponse == [parts |-> <<>>, stop_reason |-> "", text |-> ""]

\* ------------------------------------------------------------------- Init
\* CliApp.run before the first prompt: handle_event and its state do not
\* exist yet.
StreamIdle ==
  /\ cli_pc = "prompt"
  /\ tool_calls = <<>>
  /\ response_text = ""
  /\ display = <<>>
  /\ events = <<>>
  /\ emitted = <<>>

\* An MCPClient after __init__: no session, an empty exit stack.
NoSession == 0

ClientIdle ==
  /\ _session = NoSession
  /\ _exit_stack = <<>>
  /\ connects = 0
  /\ closed = {}
  /\ phase = "new"
  /\ last_op = [op |-> "none", outcome |-> "", reached |-> NoSession]

\* The roots server before its first tool call. Missing stands for "no
\* such location": it is not the location of any file or directory.
Missing == <<"">>

NoServerCall ==
  [tool |-> "none", path |-> "", format |-> "", roots |-> <<>>,
   outcome |-> "", acted_on |-> Missing]

RootsIdle ==
  /\ server_call = NoServerCall

\* The streaming agent before its first request, and no client reading.
ExecIdle ==
  /\ exec_pc = "idle"
  /\ exec_i = 0
  /\ event_queue = <<>>
  /\ current_task = FALSE
  /\ user_input = ""
  /\ received = 0
  /\ client_pc = "ended"
  /\ shown = <<>>

AuxIdle ==
  /\ ClientIdle
  /\ RootsIdle
  /\ ExecIdle

Init ==
  /\ StreamIdle
  /\ AuxIdle
  /\ sent = <<>>
  /\ messages = <<>>
  /\ pc = "awaiting"
  /\ response = NoResponse
  /\ req_idx = 1
  /\ tool_result_parts = <<>>
  /\ final_text_response = ""
  /\ next_id = 1
  /\ outcome = "none"
  /\ raised_in = ""
  /\ query = ""
  /\ prompt = <<>>
  /\ calls_in_run = 0
  /\ catalog = <<>>
  /\ last_call = NoCall

\* ------------------------------------------------------ Chat.run (chat.py)
\* A faulty start of run(): the input is taken while a run is under way.
Run_while_running(q, template, down) ==
  /\ pc \in {"awaiting", "sending", "tool_round"}
  /\ Len(messages) < MaxTurns
  /\ LET r == _process_query(messages, q, template, down) IN
       /\ Len(r.messages) <= MaxTurns
       /\ messages' = r.messages
       /\ prompt' = r.prompt
       /\ IF r.raised
          THEN /\ pc' = "awaiting"
               /\ outcome' = "raised"
               /\ raised_in' = "_process_query"
          ELSE /\ pc' = "sending"
               /\ outcome' = "none"
               /\ raised_in' = ""
  /\ query' = q
  /\ calls_in_run' = 0
  /\ last_call' = NoCall
  /\ final_text_response' = ""
  /\ response' = NoResponse
  /\ req_idx' = 1
  /\ tool_result_parts' = <<>>
  /\ sent' = <<>>
  /\ UNCHANGED <<next_id, catalog>>
  /\ UNCHANGED <<stream_vars, aux_vars>>

\* run(q) up to the loop: final_text_response = "" and _process_query(q).
Run(q, template, down) ==
  /\ pc = "awaiting"
  /\ Len(messages) < MaxTurns
  /\ LET r == _process_query(messages, q, template, down) IN
       /\ Len(r.messages) <= MaxTurns
       /\ messages' = r.messages
       /\ prompt' = r.prompt
       /\ IF r.raised
          THEN /\ pc' = "awaiting"
               /\ outcome' = "raised"
               /\ raised_in' = "_process_query"
          ELSE /\ pc' = "sending"
               /\ outcome' = "none"
               /\ raised_in' = ""
  /\ query' = q
  /\ calls_in_run' = 0
  /\ last_call' = NoCall
  /\ final_text_response' = ""
  /\ response' = NoResponse
  /\ req_idx' = 1
  /\ tool_result_parts' = <<>>
  /\ sent' = <<>>
  /\ UNCHANGED <<next_id, catalog>>
  /\ UNCHANGED <<stream_vars, aux_vars>>

\* The loop head when get_all_tools raises: the exception leaves run().
GetAllToolsRaises(down) ==
  /\ pc = "sending"
  /\ get_all_tools(Clients, down).raised
  /\ pc' = "awaiting"
  /\ outcome' = "raised"
  /\ raised_in' = "get_all_tools"
  /\ UNCHANGED <<messages, response, req_idx, tool_result_parts,
                 final_text_response, next_id, query, prompt, calls_in_run,
                 catalog, sent, last_call>>
  /\ UNCHANGED <<stream_vars, aux_vars>>

\* A faulty loop head: an assistant message is added before the failure of
\* converse() leaves run().
ChatRaises_after_append ==
  /\ pc = "sending"
  /\ catalog' = get_all_tools(Clients, {}).tools
  /\ sent' = messages
  /\ calls_in_run' = calls_in_run + 1
  /\ Len(messages) < MaxTurns
  /\ messages' = add_assistant_message(messages, <<>>)
  /\ pc' = "awaiting"
  /\ outcome' = "raised"
  /\ raised_in' = "chat"
  /\ UNCHANGED <<response, req_idx, tool_result_parts, final_text_response,
                 next_id, query, prompt, last_call>>
  /\ UNCHANGED <<stream_vars, aux_vars>>

\* The loop head when converse() raises inside Bedrock.chat.
ChatRaises ==
  /\ pc = "sending"
  /\ catalog' = get_all_tools(Clients, {}).tools
  /\ sent' = messages
  /\ calls_in_run' = calls_in_run + 1
  /\ pc' = "awaiting"
  /\ outcome' = "raised"
  /\ raised_in' = "chat"
  /\ UNCHANGED <<messages, response, req_idx, tool_result_parts,
                 final_text_response, next_id, query, prompt, last_call>>
  /\ UNCHANGED <<stream_vars, aux_vars>>

\* A faulty test: the tool round is entered when the response holds a
\* toolUse part, whatever its stop reason.
requests_tools_by_parts(resp) == SelectParts(resp.parts, "toolUse") # <<>>

\* A faulty test: after the first backend call of a run no tool round is
\* entered any more.
requests_tools_capped(resp) ==
  resp.stop_reason = "tool_use" /\ calls_in_run < 1

\* "if response["stop_reason"] == "tool_use""
requests_tools(resp) == resp.stop_reason = "tool_use"

\* The loop head when Bedrock.chat returns: the assistant message is added
\* and the stop reason decides between the tool round and the return.
ChatReturns(raw) ==
  /\ pc = "sending"
  /\ Len(messages) < MaxTurns
  /\ catalog' = get_all_tools(Clients, {}).tools
  /\ sent' = messages
  /\ calls_in_run' = calls_in_run + 1
  /\ next_id' = next_id + Len(SelectParts(raw.content, "toolUse"))
  /\ response' = chat(raw)
  /\ messages' = add_assistant_message(messages, response'.parts)
  /\ IF requests_tools(response')
     THEN /\ pc' = "tool_round"
          /\ UNCHANGED <<final_text_response, outcome>>
     ELSE /\ pc' = "awaiting"
          /\ final_text_response' = response'.text
          /\ outcome' = "final"
  /\ req_idx' = 1
  /\ tool_result_parts' = <<>>
  /\ UNCHANGED <<raised_in, query, prompt, last_call>>
  /\ UNCHANGED <<stream_vars, aux_vars>>

RECURSIVE Reverse(_)
Reverse(seq) ==
  IF seq = <<>> THEN <<>> ELSE Reverse(Tail(seq)) \o <<Head(seq)>>

\* A faulty selection: the requests are handled last first.
tool_requests_reversed == Reverse(SelectParts(response.parts, "toolUse"))

\* tool_requests of execute_tool_requests
tool_requests == SelectParts(response.parts, "toolUse")

\* One iteration of the loop of execute_tool_requests; an exception of the
\* resolution leaves execute_tool_requests and run().
ExecuteToolRequest(down, out) ==
  /\ pc = "tool_round"
  /\ req_idx <= Len(tool_requests)
  /\ LET it == execute_tool_request(tool_result_parts,
                                    tool_requests[req_idx], down, out) IN
       /\ last_call' = it.call
       /\ IF it.raised
          THEN /\ pc' = "awaiting"
               /\ outcome' = "raised"
               /\ raised_in' = IF it.call.how = "resolve_raised"
                               THEN "_find_client_with_tool"
                               ELSE "call_tool"
               /\ req_idx' = 1
               /\ tool_result_parts' = <<>>
          ELSE /\ req_idx' = req_idx + 1
               /\ tool_result_parts' = it.results
               /\ UNCHANGED <<pc, outcome, raised_in>>
  /\ UNCHANGED <<messages, response, final_text_response, next_id, query,
                 prompt, calls_in_run, catalog, sent>>
  /\ UNCHANGED <<stream_vars, aux_vars>>

\* A faulty round: the results gathered so far are added as soon as the
\* first invocation has finished.
AddToolResults_partial ==
  /\ pc = "tool_round"
  /\ req_idx > 1
  /\ Len(messages) < MaxTurns
  /\ messages' = add_user_message(messages, tool_result_parts)
  /\ pc' = "sending"
  /\ UNCHANGED <<response, req_idx, tool_result_parts, final_text_response,
                 next_id, outcome, raised_in, query, prompt, calls_in_run,
                 catalog, sent, last_call>>
  /\ UNCHANGED <<stream_vars, aux_vars>>

\* execute_tool_requests returns and run() adds the tool results as one
\* user message.
AddToolResults ==
  /\ pc = "tool_round"
  /\ req_idx > Len(tool_requests)
  /\ Len(messages) < MaxTurns
  /\ messages' = add_user_message(messages, tool_result_parts)
  /\ pc' = "sending"
  /\ UNCHANGED <<response, req_idx, tool_result_parts, final_text_response,
                 next_id, outcome, raised_in, query, prompt, calls_in_run,
                 catalog, sent, last_call>>
  /\ UNCHANGED <<stream_vars, aux_vars>>

\* The sets of sessions that may fail to answer at one moment.
Downs == SUBSET ClientSet

\* The same for _process_query, which asks the doc_client only.
PromptSessionDowns == SUBSET {"doc_client"}

Next ==
  \/ \E q \in Queries, template \in PromptTemplates,
        down \in PromptSessionDowns :
        Run(q, template, down)
  \/ \E down \in Downs : GetAllToolsRaises(down)
  \/ ChatRaises
  \/ \E raw \in RawResponses(ChatShapes, next_id) : ChatReturns(raw)
  \/ \E down \in Downs, out \in ChatCallOutcomes :
        ExecuteToolRequest(down, out)
  \/ AddToolResults

Spec == Init /\ [][Next]_vars

\* ------------------------------------- execute_tool_requests on its own
\* The state of run() when a first response that requests tools has been
\* added: execute_tool_requests is entered with that response's parts, for
\* every response of up to MaxParts parts.
InitTools ==
  \E raw \in RawResponses(Shapes, 1) :
    /\ raw.stopReason = "tool_use"
    /\ response = chat(raw)
    /\ messages = add_assistant_message(
                     _process_query(<<>>, "see @doc42", <<>>, {}).messages,
                     raw.content)
    /\ next_id = 1 + Len(SelectParts(raw.content, "toolUse"))
    /\ pc = "tool_round"
    /\ req_idx = 1
    /\ tool_result_parts = <<>>
    /\ final_text_response = ""
    /\ outcome = "none"
    /\ raised_in = ""
    /\ query = "see @doc42"
    /\ prompt = <<>>
    /\ calls_in_run = 1
    /\ catalog = get_all_tools(Clients, {}).tools
    /\ sent = _process_query(<<>>, "see @doc42", <<>>, {}).messages
    /\ last_call = NoCall
    /\ StreamIdle
    /\ AuxIdle

NextTools ==
  \/ \E down \in Downs, out \in CallOutcomes : ExecuteToolRequest(down, out)
  \/ AddToolResults

SpecTools == InitTools /\ [][NextTools]_vars

\* ----------------------------------------- a user interrupt during a round
\* Ctrl-C while execute_tool_requests waits for a session: KeyboardInterrupt
\* (or the CancelledError the event loop delivers for it) is not an
\* Exception, so the except clause of tools.py lets it pass; chat.py has no
\* handler; CliApp.run leaves its loop. Nothing is added to the log.
Cancel ==
  /\ pc = "tool_round"
  /\ req_idx <= Len(tool_requests)
  /\ pc' = "exited"
  /\ outcome' = "cancelled"
  /\ raised_in' = "KeyboardInterrupt"
  /\ UNCHANGED <<messages, response, req_idx, tool_result_parts,
                 final_text_response, next_id, query, prompt, calls_in_run,
                 catalog, sent, last_call>>
  /\ UNCHANGED <<stream_vars, aux_vars>>

NextCancel ==
  \/ \E down \in Downs, out \in CallOutcomes : ExecuteToolRequest(down, out)
  \/ AddToolResults
  \/ Cancel

SpecCancel == InitTools /\ [][NextCancel]_vars

\* ------------------------------------------- json.loads / json.dumps (cli.py)
\* The argument texts of the model are concatenations of Fragments (below):
\* the only JSON documents among them are objects without whitespace whose
\* keys are strings without escapes and whose values are unsigned integers.
\* json_loads accepts exactly these and fails on every other text, as
\* json.loads does on every other concatenation of the fragments.
Digits == <<"0", "1", "2", "3", "4", "5", "6", "7", "8", "9">>

IsDigit(ch) == \E d \in 1..Len(Digits) : Digits[d] = ch

DigitValue(ch) == (CHOOSE d \in 1..Len(Digits) : Digits[d] = ch) - 1

CharAt(s, i) == IF i >= 1 /\ i <= Len(s) THEN SubSeq(s, i, i) ELSE ""

JsonFail == [ok |-> FALSE, value |-> <<>>]

RECURSIVE ScanDigits(_, _, _)
\* the digits from position i on: their value and the position after them
ScanDigits(s, i, acc) ==
  IF IsDigit(CharAt(s, i))
  THEN ScanDigits(s, i + 1, acc * 10 + DigitValue(CharAt(s, i)))
  ELSE [val |-> acc, next |-> i]

\* a JSON integer at position i: "0" or a digit string without leading zero
ParseInt(s, i) ==
  IF ~IsDigit(CharAt(s, i)) THEN [ok |-> FALSE, val |-> 0, next |-> i]
  ELSE IF CharAt(s, i) = "0" THEN [ok |-> TRUE, val |-> 0, next |-> i + 1]
  ELSE [ok |-> TRUE] @@ ScanDigits(s, i, 0)

RECURSIVE FindQuote(_, _)
\* the position of the first double quote at or after j, 0 if there is none
FindQuote(s, j) ==
  IF j > Len(s) THEN 0
  ELSE IF CharAt(s, j) = "\"" THEN j
  ELSE FindQuote(s, j + 1)

\* a JSON string at position i
ParseString(s, i) ==
  LET close == FindQuote(s, i + 1) IN
    IF CharAt(s, i) # "\"" \/ close = 0
    THEN [ok |-> FALSE, str |-> "", next |-> i]
    ELSE [ok |-> TRUE, str |-> SubSeq(s, i + 1, close - 1), next |-> close + 1]

\* dict[key] = val: a key already present keeps its place
DictSet(dict, key, val) ==
  IF \E k \in 1..Len(dict) : dict[k].key = key
  THEN [k \in 1..Len(dict) |->
          IF dict[k].key = key THEN [key |-> key, val |-> val] ELSE dict[k]]
  ELSE Append(dict, [key |-> key, val |-> val])

RECURSIVE ParseMembers(_, _, _)
\* the members of an object from position i on, up to the closing brace,
\* which has to be the last character of the text
ParseMembers(s, i, dict) ==
  LET k == ParseString(s, i)
      v == ParseInt(s, k.next + 1)
  IN IF ~k.ok \/ CharAt(s, k.next) # ":" \/ ~v.ok THEN JsonFail
     ELSE IF CharAt(s, v.next) = ","
          THEN ParseMembers(s, v.next + 1, DictSet(dict, k.str, v.val))
     ELSE IF CharAt(s, v.next) = "}" /\ v.next = Len(s)
          THEN [ok |-> TRUE, value |-> DictSet(dict, k.str, v.val)]
     ELSE JsonFail

\* json.loads(s): ok is FALSE where json.loads raises JSONDecodeError; a
\* dict is the sequence of its items in insertion order.
json_loads(s) ==
  IF s = "{}" THEN [ok |-> TRUE, value |-> <<>>]
  ELSE IF CharAt(s, 1) = "{" THEN ParseMembers(s, 2, <<>>)
  ELSE JsonFail

RECURSIVE IntToStr(_)
IntToStr(n) ==
  IF n < 10 THEN Digits[n + 1]
  ELSE IntToStr(n \div 10) \o Digits[(n % 10) + 1]

\* json.dumps(value, indent=2) of a dict of integers
json_dumps_indent(value) ==
  IF value = <<>> THEN "{}"
  ELSE "{\n"
       \o JoinWith(",\n",
            [k \in 1..Len(value) |->
               "  " \o Quoted(value[k].key) \o ": " \o IntToStr(value[k].val)])
       \o "\n}"

\* ----------------------------------------- handle_event (03-roots cli.py)
\* The events of the provider's stream, reduced to the attributes that
\* handle_event reads.
Event(type, index, kind, name, payload) ==
  [type |-> type, index |-> index, kind |-> kind, name |-> name,
   payload |-> payload]

TextDelta(text) == Event("content_block_delta", 0, "text_delta", "", text)

InputJsonDelta(index, partial_json) ==
  Event("content_block_delta", index, "input_json_delta", "", partial_json)

TextStart == Event("content_block_start", 0, "text", "", "")

ToolUseStart(index, name) ==
  Event("content_block_start", index, "tool_use", name, "")

BlockStop(index) == Event("content_block_stop", index, "", "", "")

MessageStop == Event("message_stop", 0, "", "", "")

TextDeltas == {"Hel", "lo"}
Fragments == {"{\"a\":1,", "\"b\":2}"}
ToolIndexes == {1, 2}
ToolBlockNames == {"add", "read_doc"}

\* The events of a response before its message_stop.
StreamEvents ==
  {TextStart} \cup {TextDelta(t) : t \in TextDeltas}
  \cup {ToolUseStart(i, n) : i \in ToolIndexes, n \in ToolBlockNames}
  \cup {InputJsonDelta(i, f) : i \in ToolIndexes, f \in Fragments}
  \cup {BlockStop(i) : i \in {0} \cup ToolIndexes}

\* One print call: the text of a delta, the empty line of print(), or the
\* box of a tool call with its content.
Printed(kind, text) == [kind |-> kind, text |-> text]

\* tool_calls[index] = entry
DictPut(dict, index, entry) ==
  [j \in DOMAIN dict \cup {index} |-> IF j = index THEN entry ELSE dict[j]]

\* del tool_calls[index]
DictDel(dict, index) == [j \in DOMAIN dict \ {index} |-> dict[j]]

\* "if index not in tool_calls: tool_calls[index] = {"name": "", "args": ""}"
Registered(dict, index) ==
  IF index \in DOMAIN dict THEN dict
  ELSE DictPut(dict, index, [name |-> "", args |-> ""])

\* The locals that handle_event reads and writes, and the terminal.
HandlerState ==
  [tool_calls |-> tool_calls, response_text |-> response_text,
   display |-> display]

\* A faulty text branch: the text is kept in response_text and not printed.
on_text_delta_buffered(st, event) ==
  [st EXCEPT !.response_text = @ \o event.payload]

\* the branch "text_delta"
on_text_delta(st, event) ==
  [st EXCEPT !.response_text = @ \o event.payload,
             !.display = Append(@, Printed("text", event.payload))]

\* the branch "input_json_delta"
on_input_json_delta(st, event) ==
  LET reg == Registered(st.tool_calls, event.index) IN
    [st EXCEPT !.tool_calls =
       DictPut(reg, event.index,
               [reg[event.index] EXCEPT !.args = @ \o event.payload])]

\* the branch "content_block_start" of a tool_use block
on_tool_use_start(st, event) ==
  LET reg == Registered(st.tool_calls, event.index) IN
    [st EXCEPT !.display = Append(@, Printed("newline", "")),
               !.tool_calls =
                  DictPut(reg, event.index,
                          [reg[event.index] EXCEPT !.name = event.name])]

\* The glyph that starts the content of a tool call box.
Wrench == "\\U0001F527 "

\* tool_content of the two branches of the try statement
tool_content(tool_name, args_json) ==
  LET parsed_args == json_loads(args_json) IN
    IF parsed_args.ok
    THEN Wrench \o tool_name \o "\n\nArguments:\n"
         \o json_dumps_indent(parsed_args.value)
    ELSE Wrench \o tool_name \o "\n\nArguments: " \o args_json

\* A faulty stop branch: the entry is not deleted.
on_block_stop_keeps_entry(st, event) ==
  IF event.index \in DOMAIN st.tool_calls
  THEN [st EXCEPT !.display =
          Append(@, Printed("box",
                      tool_content(st.tool_calls[event.index].name,
                                   st.tool_calls[event.index].args)))]
  ELSE st

\* A faulty stop branch: a tool call whose arguments do not parse is dropped.
on_block_stop_drops_unparsed(st, event) ==
  IF event.index \in DOMAIN st.tool_calls
  THEN [st EXCEPT
          !.display =
             IF json_loads(st.tool_calls[event.index].args).ok
             THEN Append(@, Printed("box",
                      tool_content(st.tool_calls[event.index].name,
                                   st.tool_calls[event.index].args)))
             ELSE @,
          !.tool_calls = DictDel(@, event.index)]
  ELSE st

\* the branch "content_block_stop"
on_block_stop(st, event) ==
  IF event.index \in DOMAIN st.tool_calls
  THEN [st EXCEPT
          !.display =
             Append(@, Printed("box",
                      tool_content(st.tool_calls[event.index].name,
                                   st.tool_calls[event.index].args))),
          !.tool_calls = DictDel(@, event.index)]
  ELSE st

\* handle_event(event)
handle_event(st, event) ==
  IF event.type = "content_block_delta"
  THEN IF event.kind = "text_delta" THEN on_text_delta(st, event)
       ELSE IF event.kind = "input_json_delta"
            THEN on_input_json_delta(st, event)
       ELSE st
  ELSE IF event.type = "content_block_start"
  THEN IF event.kind = "tool_use" THEN on_tool_use_start(st, event) ELSE st
  ELSE IF event.type = "content_block_stop" THEN on_block_stop(st, event)
  ELSE st

\* The position in evts of the last tool_use start for index, 0 if none.
LastStart(evts, index) ==
  LET ps == {p \in 1..Len(evts) :
               /\ evts[p].type = "content_block_start"
               /\ evts[p].kind = "tool_use"
               /\ evts[p].index = index}
  IN IF ps = {} THEN 0 ELSE CHOOSE p \in ps : \A q \in ps : q <= p

\* ------------------------------------------------ CliApp.run (03-roots cli.py)
\* A non-blank line has been read: print(), tool_calls = {}, response_text
\* = "", and agent.run(user_input, stream=True, on_event=handle_event) is
\* entered, which opens the stream of its first response.
UserInput ==
  /\ cli_pc = "prompt"
  /\ tool_calls' = <<>>
  /\ response_text' = ""
  /\ display' = <<Printed("newline", "")>>
  /\ events' = <<>>
  /\ emitted' = <<>>
  /\ cli_pc' = "streaming"
  /\ UNCHANGED <<chat_vars, aux_vars>>

\* Claude.chat_stream: the stream yields one event and on_event(event) is
\* awaited before the next one is taken.
OnEvent(event) ==
  /\ cli_pc = "streaming"
  /\ Len(events) < MaxEvents
  /\ events' = Append(events, event)
  /\ LET st == handle_event(HandlerState, event) IN
       /\ tool_calls' = st.tool_calls
       /\ response_text' = st.response_text
       /\ display' = st.display
       /\ emitted' =
            IF Len(st.display) > Len(display)
               /\ st.display[Len(st.display)].kind = "box"
            THEN Append(emitted, [index |-> event.index,
                                  start |-> LastStart(events, event.index)])
            ELSE emitted
  /\ UNCHANGED <<cli_pc, chat_vars, aux_vars>>

\* The response ends with a request for tools: the stream yields
\* message_stop and is exhausted, chat_stream returns, run() goes through
\* its tool round and opens the stream of the next response with the same
\* on_event.
ResponseEndsRunContinues ==
  /\ cli_pc = "streaming"
  /\ Len(events) < MaxEvents
  /\ events' = Append(events, MessageStop)
  /\ LET st == handle_event(HandlerState, MessageStop) IN
       /\ tool_calls' = st.tool_calls
       /\ response_text' = st.response_text
       /\ display' = st.display
  /\ UNCHANGED <<cli_pc, emitted, chat_vars, aux_vars>>

\* The last response of the run ends: agent.run returns and CliApp.run
\* prints an empty line and prompts again.
ResponseEndsRunReturns ==
  /\ cli_pc = "streaming"
  /\ Len(events) < MaxEvents
  /\ events' = Append(events, MessageStop)
  /\ LET st == handle_event(HandlerState, MessageStop) IN
       /\ tool_calls' = st.tool_calls
       /\ response_text' = st.response_text
       /\ display' = Append(st.display, Printed("newline", ""))
  /\ cli_pc' = "prompt"
  /\ UNCHANGED <<emitted, chat_vars, aux_vars>>

NextStream ==
  \/ UserInput
  \/ \E event \in StreamEvents : OnEvent(event)
  \/ ResponseEndsRunContinues
  \/ ResponseEndsRunReturns

SpecStream == Init /\ [][NextStream]_vars

\* ------------------------------------- MCPClient (03-roots/mcp_client.py)
\* One client object and the operations a caller awaits on it, in any order.
\* Every connect() is counted; the session a connect() creates carries the
\* number of that call as its id.
MaxConnects == 3   \* connect() calls on one client

RequestNames ==
  {"list_tools", "call_tool", "list_prompts", "get_prompt", "read_resource"}

\* How far connect() gets: stdio_client fails to start the server, entering
\* the ClientSession fails, initialize() fails, or all three succeed.
ConnectOutcomes ==
  {"stdio_client raised", "ClientSession raised", "initialize raised",
   "connected"}

Context(kind, id) == [ctx |-> kind, id |-> id]

\* MCPClient.session(): the session, or ConnectionError when there is none.
session ==
  IF _session = NoSession
  THEN [raised |-> TRUE, e |-> "ConnectionError", s |-> NoSession]
  ELSE [raised |-> FALSE, e |-> "", s |-> _session]

\* connect(): enter stdio_client, enter a new ClientSession and store it,
\* then initialize it. A context whose entry raised is not pushed; what was
\* pushed and stored before the exception stays.
connect(how) ==
  /\ connects < MaxConnects
  /\ connects' = connects + 1
  /\ LET id == connects + 1
         entered_stdio == how # "stdio_client raised"
         entered_session == how \in {"initialize raised", "connected"}
     IN /\ _exit_stack' =
             _exit_stack
               \o (IF entered_stdio THEN <<Context("stdio_client", id)>>
                   ELSE <<>>)
               \o (IF entered_session THEN <<Context("ClientSession", id)>>
                   ELSE <<>>)
        /\ _session' = IF entered_session THEN id ELSE _session
        /\ last_op' = [op |-> "connect", outcome |-> how,
                       reached |-> IF entered_session THEN id ELSE NoSession]
  /\ phase' = "connected"
  /\ UNCHANGED closed
  /\ UNCHANGED <<chat_vars, stream_vars, roots_vars, exec_vars>>

\* list_tools, call_tool, list_prompts, get_prompt, read_resource: each
\* calls session() first and then awaits the request on what it returned;
\* answers tells whether that request returns or raises.
Request(name, answers) ==
  /\ last_op' =
       IF session.raised
       THEN [op |-> name, outcome |-> session.e, reached |-> NoSession]
       ELSE [op |-> name,
             outcome |-> IF answers THEN "returned" ELSE "session raised",
             reached |-> session.s]
  /\ UNCHANGED <<_session, _exit_stack, connects, closed, phase>>
  /\ UNCHANGED <<chat_vars, stream_vars, roots_vars, exec_vars>>

\* cleanup(): await self._exit_stack.aclose(), then self._session = None.
\* aclose() exits every context of the stack and empties it; when an exit
\* raises (or the task is cancelled at the await) the exception leaves
\* cleanup() before the assignment.
cleanup(raises) ==
  /\ closed' = closed \cup {_exit_stack[i].id : i \in
                  {j \in 1..Len(_exit_stack) :
                     _exit_stack[j].ctx = "ClientSession"}}
  /\ _exit_stack' = <<>>
  /\ _session' = IF raises THEN _session ELSE NoSession
  /\ phase' = "cleaned"
  /\ last_op' = [op |-> "cleanup",
                 outcome |-> IF raises THEN "aclose raised" ELSE "returned",
                 reached |-> NoSession]
  /\ UNCHANGED connects
  /\ UNCHANGED <<chat_vars, stream_vars, roots_vars, exec_vars>>

NextClient ==
  \/ \E how \in ConnectOutcomes : connect(how)
  \/ \E name \in RequestNames, answers \in BOOLEAN : Request(name, answers)
  \/ \E raises \in BOOLEAN : cleanup(raises)

SpecClient == Init /\ [][NextClient]_vars

\* ----------------------------------- the roots server (03-roots/mcp_server.py)
\* The file system the server runs on: locations are sequences of names
\* below "/". The server's working directory is /videos.
Dirs == {<<>>, <<"videos">>, <<"videos", "raw">>, <<"private">>}

Files == {<<"videos", "a.mp4">>, <<"videos", "notes.txt">>,
          <<"videos", "raw", "b.MP4">>, <<"private", "c.mp4">>}

Cwd == <<"videos">>

RECURSIVE SplitSlash(_, _, _)
\* s.split("/") from position i on; word is the component being read
SplitSlash(s, i, word) ==
  IF i > Len(s) THEN <<word>>
  ELSE IF SubSeq(s, i, i) = "/" THEN <<word>> \o SplitSlash(s, i + 1, "")
  ELSE SplitSlash(s, i + 1, word \o SubSeq(s, i, i))

RECURSIVE DropDots(_)
\* pathlib drops empty components and "." when it parses; ".." is kept
DropDots(words) ==
  IF words = <<>> THEN <<>>
  ELSE (IF Head(words) \in {"", "."} THEN <<>> ELSE <<Head(words)>>)
       \o DropDots(Tail(words))

\* Path(str): the anchor and the parts, nothing is looked up or normalised.
Path(str) ==
  [anchored |-> startswith(str, "/"),
   parts |-> DropDots(SplitSlash(str, 1, ""))]

\* str(path)
PathStr(path) ==
  IF path.parts = <<>> THEN (IF path.anchored THEN "/" ELSE ".")
  ELSE (IF path.anchored THEN "/" ELSE "") \o JoinWith("/", path.parts)

UpTo(loc) == IF loc = <<>> THEN <<>> ELSE SubSeq(loc, 1, Len(loc) - 1)

RECURSIVE Walk(_, _, _)
\* What the operating system does with a path: every component but the last
\* must be a directory, ".." goes to the parent of where the walk stands.
Walk(cur, parts, i) ==
  IF cur = Missing THEN Missing
  ELSE IF i > Len(parts) THEN cur
  ELSE IF cur \notin Dirs THEN Missing
  ELSE IF parts[i] = ".." THEN Walk(UpTo(cur), parts, i + 1)
  ELSE IF Append(cur, parts[i]) \in Dirs \cup Files
       THEN Walk(Append(cur, parts[i]), parts, i + 1)
  ELSE Missing

\* The location a path denotes, or Missing.
Locate(path) == Walk(IF path.anchored THEN <<>> ELSE Cwd, path.parts, 1)

exists(path) == Locate(path) # Missing

is_file(path) == Locate(path) \in Files

\* path.parent: the parts without the last one, ".." included
parent(path) == [path EXCEPT !.parts = UpTo(path.parts)]

RECURSIVE Normalise(_, _)
Normalise(done, parts) ==
  IF parts = <<>> THEN done
  ELSE IF Head(parts) = ".." THEN Normalise(UpTo(done), Tail(parts))
  ELSE Normalise(Append(done, Head(parts)), Tail(parts))

\* path.resolve(): absolute, ".." removed; this file system has no symlinks.
resolve(path) ==
  [anchored |-> TRUE,
   parts |-> Normalise(<<>>, (IF path.anchored THEN <<>> ELSE Cwd)
                               \o path.parts)]

\* path.relative_to(other) succeeds when other's parts are the first parts
\* of path's, compared as written; it raises ValueError otherwise.
relative_to(path, other) ==
  /\ path.anchored = other.anchored
  /\ Len(other.parts) <= Len(path.parts)
  /\ SubSeq(path.parts, 1, Len(other.parts)) = other.parts

LowerChar(c) ==
  LET UpperCase == "ABCDEFGHIJKLMNOPQRSTUVWXYZ"
      LowerCase == "abcdefghijklmnopqrstuvwxyz"
  IN IF \E k \in 1..Len(UpperCase) : SubSeq(UpperCase, k, k) = c
     THEN LET k == CHOOSE k \in 1..Len(UpperCase) :
                     SubSeq(UpperCase, k, k) = c
          IN SubSeq(LowerCase, k, k)
     ELSE c

RECURSIVE LowerFrom(_, _)
LowerFrom(str, i) ==
  IF i > Len(str) THEN ""
  ELSE LowerChar(SubSeq(str, i, i)) \o LowerFrom(str, i + 1)

\* str.lower()
lower(str) == LowerFrom(str, 1)

endswith(str, suffix) ==
  /\ Len(str) >= Len(suffix)
  /\ SubSeq(str, Len(str) - Len(suffix) + 1, Len(str)) = suffix

\* MCPClient._create_roots: each configured path, resolved, as a file:// URI.
_create_roots(root_paths) ==
  [i \in 1..Len(root_paths) |->
     "file://" \o PathStr(resolve(Path(root_paths[i])))]

\* utils.file_url_to_path: the path component of the URL (the names here
\* hold no "%", so unquote changes nothing), without the leading "/" of a
\* Windows drive path.
file_url_to_path(file_url) ==
  LET path == SubSeq(file_url, Len("file://") + 1, Len(file_url))
  IN Path(IF Len(path) > 2 /\ CharAt(path, 1) = "/" /\ CharAt(path, 3) = ":"
          THEN SubSeq(path, 2, Len(path))
          ELSE path)

\* The root lists a client may be constructed with; what list_roots returns
\* is _create_roots of one of them.
RootPaths == {<<>>, <<"/videos">>, <<"raw">>, <<"/videos/raw", "/private">>}

RequestedPaths ==
  {"/videos", "/videos/raw", "raw", "/private", "/videos/../private",
   "/videos/a.mp4", "a.mp4", "/videos/raw/b.MP4", "/videos/raw/../a.mp4",
   "/private/c.mp4", "/videos/../private/c.mp4", "/videos/notes.txt",
   "/videos/missing.mp4"}

Formats == {"mov", "exe"}

SUPPORTED_FORMATS == {"webm", "mkv", "avi", "mov", "gif"}

\* is_path_allowed: FALSE for a path that does not exist; a file is replaced
\* by its parent; TRUE when relative_to succeeds for some root.
is_path_allowed(requested_path, client_roots) ==
  IF ~exists(requested_path) THEN FALSE
  ELSE LET dir == IF is_file(requested_path) THEN parent(requested_path)
                  ELSE requested_path
       IN \E i \in 1..Len(client_roots) :
            relative_to(dir, file_url_to_path(client_roots[i]))

\* VideoConverter.validate_input: Path(input_path) as written, or ValueError.
validate_input(input_path) ==
  IF ~exists(Path(input_path)) THEN [raised |-> TRUE, path |-> Path("")]
  ELSE IF ~endswith(lower(input_path), ".mp4")
       THEN [raised |-> TRUE, path |-> Path("")]
  ELSE [raised |-> FALSE, path |-> Path(input_path)]

\* The tool read_dir: resolve, check, then list the directory.
read_dir(path, root_paths) ==
  LET client_roots == _create_roots(root_paths)
      requested_path == resolve(Path(path))
      allowed == is_path_allowed(requested_path, client_roots)
      isdir == Locate(requested_path) \in Dirs
      result == IF ~allowed THEN "ValueError"
                ELSE IF isdir THEN "listed" ELSE "NotADirectoryError"
  IN /\ server_call' =
          [tool |-> "read_dir", path |-> path, format |-> "",
           roots |-> client_roots, outcome |-> result,
           acted_on |-> IF result = "listed" THEN Locate(requested_path)
                        ELSE Missing]
     /\ UNCHANGED <<chat_vars, stream_vars, client_vars, exec_vars>>

\* The tool convert_video: validate_input, check, then VideoConverter.convert,
\* which validates again, rejects an unsupported format with ValueError and
\* runs ffmpeg on input_path.
convert_video(input_path, format, root_paths) ==
  LET client_roots == _create_roots(root_paths)
      input_file == validate_input(input_path)
      allowed == ~input_file.raised
                 /\ is_path_allowed(input_file.path, client_roots)
      result == IF ~allowed THEN "ValueError"
                ELSE IF format \notin SUPPORTED_FORMATS THEN "ValueError"
                ELSE "converted"
  IN /\ server_call' =
          [tool |-> "convert_video", path |-> input_path, format |-> format,
           roots |-> client_roots, outcome |-> result,
           acted_on |-> IF result = "converted"
                        THEN Locate(Path(input_path)) ELSE Missing]
     /\ UNCHANGED <<chat_vars, stream_vars, client_vars, exec_vars>>

NextRoots ==
  \/ \E path \in RequestedPaths, root_paths \in RootPaths :
       read_dir(path, root_paths)
  \/ \E path \in RequestedPaths, format \in Formats, root_paths \in RootPaths :
       convert_video(path, format, root_paths)

SpecRoots == Init /\ [][NextRoots]_vars

\* ------------- BasicStreamingExecutor (04_streaming_and_tasks/basic_streaming_agent.py)
\* execute() is a process that suspends at every await on its TaskUpdater
\* and at asyncio.sleep; each updater call puts one event on the queue of
\* the request. The client of test_basic_streaming.py reads that queue.
progress_steps ==
  <<"\\U0001F680 Initializing...",
    "\\U0001F4CA Processing your request...",
    "\\U0001F50D Analyzing data...",
    "\\U0001F4DD Generating response...">>

UserInputs == {"Process my data", ""}

\* asyncio.get_event_loop().time() when the result is built
Times == {"12.5", "13.75"}

QueueEvent(call, kind, state, text, final) ==
  [call |-> call, kind |-> kind, state |-> state, text |-> text,
   final |-> final]

\* f"{step} ({i+1}/{len(progress_steps)})" for the loop index i (from 0)
progress_text_from_zero(i) ==
  progress_steps[i + 1] \o " (" \o IntToStr(i) \o "/"
    \o IntToStr(Len(progress_steps)) \o ")"

progress_text(i) ==
  progress_steps[i + 1] \o " (" \o IntToStr(i + 1) \o "/"
    \o IntToStr(Len(progress_steps)) \o ")"

result_text(input, time) ==
  "\\u2705 Completed processing: '" \o input \o "'\n\nProcessed at: " \o time

\* execute() is called for a request: updater is created, nothing is sent.
Execute(task, input) ==
  /\ exec_pc \in {"idle", "done"}
  /\ current_task' = task
  /\ user_input' = input
  /\ event_queue' = <<>>
  /\ exec_i' = 0
  /\ exec_pc' = IF ~task THEN "submit" ELSE "start_work"
  /\ received' = 0
  /\ client_pc' = "reading"
  /\ shown' = <<>>
  /\ UNCHANGED <<chat_vars, stream_vars, client_vars, roots_vars>>

\* await updater.submit()
Submit ==
  /\ exec_pc = "submit"
  /\ event_queue' =
       Append(event_queue, QueueEvent("submit", "task", "submitted", "", FALSE))
  /\ exec_pc' = "start_work"
  /\ UNCHANGED <<exec_i, current_task, user_input, received, client_pc, shown>>
  /\ UNCHANGED <<chat_vars, stream_vars, client_vars, roots_vars>>

\* await updater.start_work()
StartWork ==
  /\ exec_pc = "start_work"
  /\ event_queue' =
       Append(event_queue,
              QueueEvent("start_work", "status-update", "working", "", FALSE))
  /\ exec_i' = 0
  /\ exec_pc' = "update_status"
  /\ UNCHANGED <<current_task, user_input, received, client_pc, shown>>
  /\ UNCHANGED <<chat_vars, stream_vars, client_vars, roots_vars>>

\* await updater.update_status(TaskState.working, message=...) in the loop
UpdateStatus ==
  /\ exec_pc = "update_status"
  /\ event_queue' =
       Append(event_queue,
              QueueEvent("update_status", "status-update", "working",
                         progress_text(exec_i), FALSE))
  /\ exec_pc' = "sleep"
  /\ UNCHANGED <<exec_i, current_task, user_input, received, client_pc, shown>>
  /\ UNCHANGED <<chat_vars, stream_vars, client_vars, roots_vars>>

\* await asyncio.sleep(1), then the next iteration or the end of the loop
Sleep ==
  /\ exec_pc = "sleep"
  /\ exec_i' = exec_i + 1
  /\ exec_pc' = IF exec_i + 1 < Len(progress_steps) THEN "update_status"
                ELSE "add_artifact"
  /\ UNCHANGED <<event_queue, current_task, user_input, received, client_pc,
                 shown>>
  /\ UNCHANGED <<chat_vars, stream_vars, client_vars, roots_vars>>

\* await updater.add_artifact([...], name="processing_result")
AddArtifact(time) ==
  /\ exec_pc = "add_artifact"
  /\ event_queue' =
       Append(event_queue,
              QueueEvent("add_artifact", "artifact-update", "processing_result",
                         result_text(user_input, time), FALSE))
  /\ exec_pc' = "complete"
  /\ UNCHANGED <<exec_i, current_task, user_input, received, client_pc, shown>>
  /\ UNCHANGED <<chat_vars, stream_vars, client_vars, roots_vars>>

\* await updater.complete(): the final status update
Complete ==
  /\ exec_pc = "complete"
  /\ event_queue' =
       Append(event_queue,
              QueueEvent("complete", "status-update", "completed", "", TRUE))
  /\ exec_pc' = "done"
  /\ UNCHANGED <<exec_i, current_task, user_input, received, client_pc, shown>>
  /\ UNCHANGED <<chat_vars, stream_vars, client_vars, roots_vars>>

\* test_basic_streaming: what the loop body prints for one event
Lines(event) ==
  IF event.kind = "task" THEN <<"Task Created">>
  ELSE IF event.kind = "status-update"
  THEN (IF event.text # ""
        THEN <<"Status [" \o event.state \o "]: " \o event.text>> ELSE <<>>)
       \o (IF event.final
           THEN <<"Stream ended (final status: " \o event.state \o ")">>
           ELSE <<>>)
  ELSE IF event.kind = "artifact-update"
  THEN (IF event.text # ""
        THEN <<"Artifact '" \o event.state \o "': " \o event.text>> ELSE <<>>)
  ELSE <<>>

\* test_basic_streaming: the client reads the next event of the stream and
\* leaves the loop at a final status update.
ClientReads ==
  /\ client_pc = "reading"
  /\ received < Len(event_queue)
  /\ LET event == event_queue[received + 1]
     IN /\ shown' = shown \o Lines(event)
        /\ client_pc' = IF event.kind = "status-update" /\ event.final
                        THEN "ended" ELSE "reading"
  /\ received' = received + 1
  /\ UNCHANGED <<exec_pc, exec_i, event_queue, current_task, user_input>>
  /\ UNCHANGED <<chat_vars, stream_vars, client_vars, roots_vars>>

NextExec ==
  \/ \E task \in BOOLEAN, input \in UserInputs : Execute(task, input)
  \/ Submit
  \/ StartWork
  \/ UpdateStatus
  \/ Sleep
  \/ \E time \in Times : AddArtifact(time)
  \/ Complete
  \/ ClientReads

SpecExec == Init /\ [][NextExec]_vars

\* ================================================================ claims
RECURSIVE ToolUseIds(_)
\* The ids of the toolUse parts of a content, in order.
ToolUseIds(parts) ==
  IF parts = <<>> THEN <<>>
  ELSE (IF "toolUse" \in DOMAIN Head(parts)
        THEN <<Head(parts).toolUse.toolUseId>> ELSE <<>>)
       \o ToolUseIds(Tail(parts))

RECURSIVE ToolResultIds(_)
\* The toolUseIds of the toolResult parts of a content, in order.
ToolResultIds(parts) ==
  IF parts = <<>> THEN <<>>
  ELSE (IF "toolResult" \in DOMAIN Head(parts)
        THEN <<Head(parts).toolResult.toolUseId>> ELSE <<>>)
       \o ToolResultIds(Tail(parts))

Occurrences(x, seq) == Cardinality({k \in 1..Len(seq) : seq[k] = x})

RECURSIVE ResultIdsBetween(_, _)
\* The toolUseIds of all toolResult parts of the turns i+1 .. j-1 of the log.
ResultIdsBetween(i, j) ==
  IF i + 1 >= j THEN <<>>
  ELSE ToolResultIds(messages[i + 1].content) \o ResultIdsBetween(i + 1, j)

IsAssistant(i) == messages[i].role = "assistant"

\* A turn made of tool results only (a user turn written from a query or a
\* prompt template always holds a text part).
IsToolResultTurn(i) ==
  /\ messages[i].role = "user"
  /\ \A k \in 1..Len(messages[i].content) :
        "toolResult" \in DOMAIN messages[i].content[k]

\* C1: every toolUse part of an assistant turn is followed, before the next
\* assistant turn is appended, by exactly one toolResult part with its id:
\* whenever the log holds an assistant turn i and a next assistant turn j,
\* each toolUse id of turn i occurs exactly once among the toolResult parts
\* of the turns between them.
C1_EveryToolUseAnswered ==
  \A i \in 1..Len(messages) : \A j \in (i + 1)..Len(messages) :
    ( /\ IsAssistant(i)
      /\ IsAssistant(j)
      /\ \A m \in (i + 1)..(j - 1) : ~IsAssistant(m) )
    => \A k \in 1..Len(ToolUseIds(messages[i].content)) :
          Occurrences(ToolUseIds(messages[i].content)[k],
                      ResultIdsBetween(i, j)) = 1

\* C2: execute_tool_requests yields exactly one toolResult per toolUse part,
\* in the order of the toolUse parts and with their ids, whatever the tools
\* do: while the round runs the results built so far answer the first
\* requests of the response in order, and the list the round returns (the
\* content of the tool result turn) answers all of the toolUse parts of the
\* assistant turn before it, one result each, in order.
C2_OneResultPerRequestInOrder ==
  /\ pc = "tool_round" =>
       /\ Len(tool_result_parts) <= Len(ToolUseIds(response.parts))
       /\ \A k \in 1..Len(tool_result_parts) :
            /\ DOMAIN tool_result_parts[k] = {"toolResult"}
            /\ tool_result_parts[k].toolResult.toolUseId
                 = ToolUseIds(response.parts)[k]
  /\ \A i \in 2..Len(messages) :
       (IsToolResultTurn(i) /\ IsAssistant(i - 1)) =>
          ToolResultIds(messages[i].content)
            = ToolUseIds(messages[i - 1].content)

\* A round of three requests, one unresolvable, one failing and one
\* succeeding, has returned its three results.
C2_Witness ==
  /\ pc = "sending"
  /\ Len(messages) = 3
  /\ IsToolResultTurn(3)
  /\ Len(messages[3].content) = 3
  /\ \E a, b, c \in 1..3 :
       /\ messages[3].content[a].toolResult.content[1].text
            = "Could not find that tool"
       /\ messages[3].content[b].toolResult.status = "success"
       /\ messages[3].content[c].toolResult.status = "error"
       /\ messages[3].content[c].toolResult.content[1].text
            # "Could not find that tool"

\* An iteration of the loop of execute_tool_requests has just run: it is
\* last_call', the request of a toolUseId not handled before.
IterationStep == last_call'.id # last_call.id /\ last_call'.id # 0

\* The step appended exactly one part to tool_result_parts.
OnePartAppended ==
  /\ Len(tool_result_parts') = Len(tool_result_parts) + 1
  /\ SubSeq(tool_result_parts', 1, Len(tool_result_parts)) = tool_result_parts

NewPart == tool_result_parts'[Len(tool_result_parts')]

\* C3: when the owning session raises while executing a requested tool,
\* execute_tool_requests does not raise: the iteration appends a toolResult
\* with status error, the request's toolUseId and a diagnostic string naming
\* the tool, and the loop goes on to the next request.
C3_SessionExceptionBecomesErrorResult ==
  [][ (IterationStep /\ last_call'.how = "call_raised") =>
        /\ last_call'.client \in ClientSet
        /\ pc' = "tool_round"
        /\ outcome' = outcome
        /\ raised_in' = raised_in
        /\ req_idx' = req_idx + 1
        /\ OnePartAppended
        /\ DOMAIN NewPart = {"toolResult"}
        /\ NewPart.toolResult.status = "error"
        /\ NewPart.toolResult.toolUseId = last_call'.id
        /\ NewPart.toolResult.toolUseId = ToolUseIds(response.parts)[req_idx]
        /\ Len(NewPart.toolResult.content) = 1
        /\ startswith(NewPart.toolResult.content[1].text,
              "{\"error\": \"Error executing tool '" \o last_call'.name \o "'")
    ]_vars

\* The first request of a round failed in its session and the round has gone
\* on to handle the second one.
C3_Witness ==
  /\ pc = "tool_round"
  /\ Len(tool_result_parts) = 2
  /\ tool_result_parts[1].toolResult.status = "error"
  /\ startswith(tool_result_parts[1].toolResult.content[1].text, "{\"error\"")
  /\ last_call.how = "call_returned"

\* The names some connected session lists.
ExposedTools == UNION {SeqToSet(ServerTools(c)) : c \in ClientSet}

C5_ToolFailureNeverAbortsRun ==
  [][ pc = "tool_round" =>
        /\ pc' \in {"tool_round", "sending"}
        /\ outcome' # "raised"
    ]_vars

\* C6: when the backend call fails, the failure is surfaced to the caller of
\* run(), no assistant turn is appended for the call and the log is exactly
\* what it was before the call.
C6_BackendFailureLeavesLogIntact ==
  [][ (calls_in_run' = calls_in_run + 1 /\ raised_in' = "chat") =>
        /\ pc = "sending"
        /\ messages' = messages
        /\ pc' = "awaiting"
        /\ outcome' = "raised"
    ]_vars

\* The second backend call of a run failed after a tool round: the user
\* turn, the assistant turn and the tool_result turn are in the log.
C6_Witness ==
  /\ outcome = "raised"
  /\ raised_in = "chat"
  /\ calls_in_run = 2
  /\ Len(messages) = 3
  /\ IsAssistant(2)
  /\ IsToolResultTurn(3)

IsCommand(q) == startswith(q, "/")

\* C7 as stated: a command-prefixed input bypasses the model round: during
\* the run() of a command the backend is not called and no tool round is
\* entered.
C7_CommandBypassesModelRound ==
  IsCommand(query) => (calls_in_run = 0 /\ pc # "tool_round")

\* The text messages of a prompt template.
TextMessages(template) ==
  SelectSeq(template, LAMBDA m : m.content.type = "text")

\* C7 as amended: a command-prefixed input gets no user turn of its own: the
\* text messages of the template returned by the prompt session are appended
\* in its place, in order and with their roles, without any backend call;
\* run() then goes on to the model round as for any other input.
C7_CommandAppendsTemplateThenSends ==
  [][ (pc = "awaiting" /\ IsCommand(query') /\ outcome' # "raised") =>
        /\ Len(messages') = Len(messages) + Len(TextMessages(prompt'))
        /\ SubSeq(messages', 1, Len(messages)) = messages
        /\ \A k \in 1..Len(TextMessages(prompt')) :
             messages'[Len(messages) + k]
               = [role |-> TextMessages(prompt')[k].role,
                  content |->
                    <<[text |-> TextMessages(prompt')[k].content.text]>>]
        /\ calls_in_run' = 0
        /\ pc' = "sending"
    ]_vars

\* A command whose template holds a text message was given, the backend was
\* called for it and its tool round is running.
C7_Witness ==
  /\ IsCommand(query)
  /\ Len(TextMessages(prompt)) >= 1
  /\ calls_in_run = 1
  /\ pc = "tool_round"
  /\ messages[1].content = <<[text |-> "Summarize the document"]>>

\* The position of the first session, in registration order, that lists name.
FirstExposing(name) ==
  CHOOSE i \in 1..Len(Clients) :
    /\ name \in SeqToSet(ServerTools(Clients[i]))
    /\ \A j \in 1..(i - 1) : name \notin SeqToSet(ServerTools(Clients[j]))

\* C8: a name that several sessions expose always resolves to the session
\* registered first, in every round and however often it is resolved: every
\* resolution that yields a session yields the first one, in registration
\* order, that lists the name.
C8_FirstRegisteredSessionWins ==
  last_call.client # NoClient =>
    /\ last_call.name \in ExposedTools
    /\ last_call.client = Clients[FirstExposing(last_call.name)]

\* The name both sessions expose was resolved in a second round of the
\* conversation, again to the first session.
C8_Witness ==
  /\ Len(messages) = 4
  /\ IsAssistant(2)
  /\ IsToolResultTurn(3)
  /\ "read_doc" \in {messages[2].content[k].toolUse.name :
                        k \in {n \in 1..Len(messages[2].content) :
                                 "toolUse" \in DOMAIN messages[2].content[n]}}
  /\ last_call.name = "read_doc"
  /\ last_call.client = "doc_client"
  /\ last_call.id > 1

\* C9: building the catalog fails open: a session whose list_tools fails is
\* skipped and never makes the catalog fetch, or the run, fail.
C9_CatalogFetchFailsOpen ==
  ~(outcome = "raised" /\ raised_in = "get_all_tools")

\* C10: run() follows SENDING -> (TOOL_ROUND -> SENDING)* -> FINAL: every
\* backend response appends exactly one assistant turn holding its parts; a
\* response that requests tools is followed by the tool round, which makes
\* no backend call and is followed by the next backend call; any other
\* response makes run() return its text, after which nothing happens until
\* the caller starts the next run().
C10_RunStateMachine ==
  [][ /\ (calls_in_run' = calls_in_run + 1 /\ raised_in' # "chat") =>
           /\ pc = "sending"
           /\ messages' = Append(messages,
                 [role |-> "assistant", content |-> response'.parts])
           /\ IF response'.stop_reason = "tool_use"
              THEN pc' = "tool_round" /\ outcome' = "none"
              ELSE /\ pc' = "awaiting"
                   /\ outcome' = "final"
                   /\ final_text_response'
                        = JoinWith("\n", TextParts(response'.parts))
      /\ pc = "sending" => pc' \in {"tool_round", "awaiting"}
      /\ pc = "tool_round" =>
           /\ calls_in_run' = calls_in_run
           /\ pc' \in {"tool_round", "sending"} \/ outcome' = "raised"
           /\ pc' = "sending" => IsToolResultTurn(Len(messages))'
      /\ pc = "awaiting" =>
           /\ calls_in_run' = 0
           /\ last_call' = NoCall
           /\ pc' \in {"sending", "awaiting"}
           /\ pc' = "awaiting" => (outcome' = "raised" /\ messages' = messages)
    ]_vars

\* A run went through a tool round and a second backend call, and returned
\* the text of the second response.
C10_Witness ==
  /\ pc = "awaiting"
  /\ outcome = "final"
  /\ calls_in_run = 2
  /\ Len(messages) = 4
  /\ IsToolResultTurn(3)
  /\ Len(messages[3].content) = 2
  /\ final_text_response = "hi"

\* C11: the conversation log is append-only: every step that changes it
\* (user input, command template, assistant response, tool results) leaves
\* the turns already present as they are, at their positions, and adds the
\* new turns at the end; and what a backend call is handed is exactly the
\* log as it stands at the call, in append order.
C11_LogAppendOnly ==
  [][ /\ Len(messages') >= Len(messages)
      /\ SubSeq(messages', 1, Len(messages)) = messages
      /\ calls_in_run' = calls_in_run + 1 => sent' = messages
    ]_vars

\* A command template, an assistant response, the results of a tool round
\* and a second assistant response were appended in this order, and the
\* second backend call was handed the first three turns.
C11_Witness ==
  /\ IsCommand(query)
  /\ Len(messages) = 4
  /\ messages[1].role = "user"
  /\ IsAssistant(2)
  /\ IsToolResultTurn(3)
  /\ IsAssistant(4)
  /\ sent = SubSeq(messages, 1, 3)

\* C12: the results of one tool round are appended as a single tool_result
\* turn: while the round runs the log does not change; the only step of a
\* round that changes the log is taken when every request of the round has
\* been handled, and appends one user turn holding all the results of the
\* round; a round that is left by an exception appends nothing.
C12_ToolRoundAppendedAtomically ==
  [][ pc = "tool_round" =>
        \/ /\ messages' = messages
           /\ pc' = "tool_round" \/ outcome' = "raised"
        \/ /\ req_idx > Len(tool_requests)
           /\ Len(tool_result_parts) = Len(tool_requests)
           /\ messages' = Append(messages,
                 [role |-> "user", content |-> tool_result_parts])
           /\ pc' = "sending"
           /\ outcome' # "raised"
    ]_vars

\* A round of two requests has finished and its two results are in the log
\* as one turn.
C12_Witness ==
  /\ pc = "sending"
  /\ Len(tool_requests) = 2
  /\ IsToolResultTurn(Len(messages))
  /\ ToolResultIds(messages[Len(messages)].content) = ToolUseIds(response.parts)

\* The content of the last assistant turn of the log.
LastAssistantContent ==
  LET idx == {i \in 1..Len(messages) : IsAssistant(i)} IN
    IF idx = {} THEN <<>>
    ELSE messages[CHOOSE i \in idx : \A j \in idx : j <= i].content

\* The toolResult parts of the turns after the last assistant turn.
ResultsAfterLastAssistant ==
  LET idx == {i \in 1..Len(messages) : IsAssistant(i)} IN
    IF idx = {} THEN <<>>
    ELSE LET last == CHOOSE i \in idx : \A j \in idx : j <= i IN
         SelectParts(
           IF last = Len(messages) THEN <<>>
           ELSE messages[Len(messages)].content, "toolResult")

\* C13: after a user interrupt during a round no toolUse is left without a
\* matching toolResult: once the interrupt has been handled, every toolUse
\* of the last assistant turn has a toolResult in the log, those of the
\* invocations that were outstanding with status "error".
C13_CancelledRoundAnswered ==
  pc = "exited" =>
    \A k \in 1..Len(ToolUseIds(LastAssistantContent)) :
      \E m \in 1..Len(ResultsAfterLastAssistant) :
        ResultsAfterLastAssistant[m].toolResult.toolUseId
          = ToolUseIds(LastAssistantContent)[k]

\* A step of the stream: one more event has been yielded and handled.
StreamStep == Len(events') = Len(events) + 1

\* The event handled by the step.
Arrived == events'[Len(events')]

RECURSIVE TextsShown(_)
\* The texts printed for text deltas, in the order of printing.
TextsShown(d) ==
  IF d = <<>> THEN <<>>
  ELSE (IF Head(d).kind = "text" THEN <<Head(d).text>> ELSE <<>>)
       \o TextsShown(Tail(d))

RECURSIVE TextsArrived(_)
\* The texts of the text deltas of a sequence of events, in arrival order.
TextsArrived(evts) ==
  IF evts = <<>> THEN <<>>
  ELSE (IF Head(evts).kind = "text_delta" THEN <<Head(evts).payload>>
        ELSE <<>>)
       \o TextsArrived(Tail(evts))

BoxCount(d) == Cardinality({k \in 1..Len(d) : d[k].kind = "box"})

\* The spec's example of a response that is one text block.
HelLo == <<TextStart, TextDelta("Hel"), TextDelta("lo"), BlockStop(0)>>

\* C14: in streaming mode every text delta is printed in the step that
\* handles it, as one output of its own appended after everything printed
\* before; the texts on the display are at every moment the texts of the
\* deltas that have arrived, one output per delta and in arrival order; and
\* the response start, "Hel", "lo", stop displays "Hel" then "lo" and shows
\* no tool call.
C14_TextDeltasShownAsTheyArrive ==
  [][ /\ (StreamStep /\ Arrived.kind = "text_delta") =>
           display' = Append(display, Printed("text", Arrived.payload))
      /\ TextsShown(display') = TextsArrived(events')
      /\ events' = HelLo =>
           /\ TextsShown(display') = <<"Hel", "lo">>
           /\ BoxCount(display') = 0
           /\ emitted' = <<>>
    ]_vars

\* The example response has been handled.
C14_Witness ==
  /\ events = HelLo
  /\ display = <<Printed("newline", ""), Printed("text", "Hel"),
                 Printed("text", "lo")>>

RECURSIVE DeltasFor(_, _, _)
\* The concatenation, in arrival order, of the input_json deltas for index
\* among the events after position from.
DeltasFor(evts, index, from) ==
  IF from >= Len(evts) THEN ""
  ELSE (IF /\ evts[from + 1].kind = "input_json_delta"
           /\ evts[from + 1].index = index
        THEN evts[from + 1].payload ELSE "")
       \o DeltasFor(evts, index, from + 1)

\* The events after position from hold neither a stop for index nor the end
\* of a response.
BlockOpenSince(evts, index, from) ==
  \A q \in (from + 1)..Len(evts) :
    /\ ~(evts[q].type = "content_block_stop" /\ evts[q].index = index)
    /\ evts[q].type # "message_stop"

\* C15: for a streamed tool-use block (a start with name n at index i, any
\* number of input_json deltas for i, the stop for i) exactly one tool call
\* is emitted at the stop, whose name is n and whose input is what the
\* concatenation of the block's deltas, in arrival order, parses to.
C15_BlockYieldsOneInvocation ==
  [][ ( /\ StreamStep
        /\ Arrived.type = "content_block_stop"
        /\ LastStart(events, Arrived.index) > 0
        /\ BlockOpenSince(events, Arrived.index,
                          LastStart(events, Arrived.index)) )
      => display' = Append(display,
           Printed("box",
             tool_content(events[LastStart(events, Arrived.index)].name,
                          DeltasFor(events, Arrived.index,
                                    LastStart(events, Arrived.index)))))
    ]_vars

\* C16: a tool call is emitted only by the step that handles the stop event
\* of a registered index, never by a start or a delta; that step emits
\* exactly one call and discards the entry of the index, so that a second
\* stop for the same index finds no entry, emits nothing and changes
\* nothing.
C16_EmittedOnlyAtStop ==
  [][ /\ BoxCount(display') > BoxCount(display) =>
           /\ StreamStep
           /\ Arrived.type = "content_block_stop"
           /\ Arrived.index \in DOMAIN tool_calls
      /\ (StreamStep /\ Arrived.type = "content_block_stop") =>
           IF Arrived.index \in DOMAIN tool_calls
           THEN /\ BoxCount(display') = BoxCount(display) + 1
                /\ Len(display') = Len(display) + 1
                /\ Arrived.index \notin DOMAIN tool_calls'
           ELSE /\ display' = display
                /\ tool_calls' = tool_calls
    ]_vars

\* A started block was stopped twice: one tool call is shown.
C16_Witness ==
  /\ Len(events) = 3
  /\ events[1] = ToolUseStart(1, "add")
  /\ events[2] = BlockStop(1)
  /\ events[3] = BlockStop(1)
  /\ BoxCount(display) = 1
  /\ Len(emitted) = 1

\* C17: when the text accumulated for a tool block does not parse at its
\* stop event (the empty text included), the handler does not raise and
\* does not drop the call: it emits the call with the accumulated text
\* itself as its arguments, and discards the entry.
C17_UnparsedArgumentsShownRaw ==
  [][ ( /\ StreamStep
        /\ Arrived.type = "content_block_stop"
        /\ Arrived.index \in DOMAIN tool_calls
        /\ ~json_loads(tool_calls[Arrived.index].args).ok )
      => /\ display' = Append(display,
              Printed("box",
                Wrench \o tool_calls[Arrived.index].name
                \o "\n\nArguments: " \o tool_calls[Arrived.index].args))
         /\ tool_calls' = DictDel(tool_calls, Arrived.index)
    ]_vars

\* A block with an empty buffer and a block whose buffer is the tail of an
\* object have been stopped: both calls are shown with the raw text.
C17_Witness ==
  /\ events = <<ToolUseStart(1, "add"), InputJsonDelta(2, "\"b\":2}"),
                BlockStop(1), BlockStop(2)>>
  /\ tool_calls = <<>>
  /\ display[3] = Printed("box", Wrench \o "add\n\nArguments: ")
  /\ display[4] = Printed("box", Wrench \o "\n\nArguments: \"b\":2}")

\* C18: tool-use blocks open at the same time are tracked independently: a
\* delta for index i changes the entry of i only, whatever is interleaved
\* with it; and the tool calls are emitted in the order in which their
\* start events occurred.
C18_IndependentAndInStartOrder ==
  [][ /\ (StreamStep /\ Arrived.kind = "input_json_delta") =>
           /\ display' = display
           /\ \A j \in DOMAIN tool_calls :
                j # Arrived.index =>
                  j \in DOMAIN tool_calls' /\ tool_calls'[j] = tool_calls[j]
      /\ \A a \in 1..Len(emitted') : \A b \in (a + 1)..Len(emitted') :
           (emitted'[a].start > 0 /\ emitted'[b].start > 0)
             => emitted'[a].start < emitted'[b].start
    ]_vars

RECURSIVE AfterLastMessageStop(_)
\* The events of the response that is being streamed.
AfterLastMessageStop(evts) ==
  IF evts = <<>> THEN <<>>
  ELSE IF evts[Len(evts)].type = "message_stop" THEN <<>>
  ELSE Append(AfterLastMessageStop(SubSeq(evts, 1, Len(evts) - 1)),
              evts[Len(evts)])

RECURSIVE Replay(_, _)
\* The state of a handler that has handled evts starting from st.
Replay(st, evts) ==
  IF evts = <<>> THEN st
  ELSE Replay(handle_event(st, Head(evts)), Tail(evts))

\* The boxes among the outputs that after has more than before.
NewBoxes(before, after) ==
  SelectSeq(SubSeq(after, Len(before) + 1, Len(after)),
            LAMBDA item : item.kind = "box")

\* C19: stream state lives for one response: nothing of an earlier response
\* of the same run shows in a tool call of a later one. Every step of the
\* stream shows exactly the tool calls that a handler would show whose
\* state was empty when the current response began.
C19_NothingCarriedOver ==
  [][ StreamStep =>
        LET fresh == Replay([tool_calls |-> <<>>, response_text |-> "",
                             display |-> <<>>],
                            AfterLastMessageStop(events))
        IN NewBoxes(display, display')
             = NewBoxes(fresh.display, handle_event(fresh, Arrived).display)
    ]_vars

\* C20 as stated: run() ends if and only if the backend returns a response
\* whose stop reason is not a request for tools, so every step that ends a
\* run is the return of such a response.
C20_EndsOnlyOnFinalResponse ==
  [][ (pc # "awaiting" /\ pc' = "awaiting") =>
        /\ outcome' = "final"
        /\ response'.stop_reason # "tool_use"
    ]_vars

\* C20 amended: Chat.run has no cap on the number of tool rounds. Whatever
\* the number of backend calls the run has made, a response that requests
\* tools leads into a tool round and a finished round leads to the next
\* backend call; a run ends only by returning the text of a response whose
\* stop reason is not a request for tools, or by an exception of the
\* backend call, of the catalog fetch or of a tool resolution.
C20_NoRoundCap ==
  [][ /\ (pc # "awaiting" /\ pc' = "awaiting") =>
           \/ /\ outcome' = "final"
              /\ calls_in_run' = calls_in_run + 1
              /\ response'.stop_reason # "tool_use"
           \/ /\ outcome' = "raised"
              /\ raised_in' \in {"chat", "get_all_tools",
                                 "_find_client_with_tool"}
      /\ ( /\ calls_in_run' = calls_in_run + 1
           /\ raised_in' # "chat"
           /\ response'.stop_reason = "tool_use" ) => pc' = "tool_round"
      /\ (pc = "tool_round" /\ pc' # "tool_round" /\ outcome' # "raised")
           => pc' = "sending"
    ]_vars

\* The second response of a run requested tools again and the run is in
\* its second tool round, with the log at its bound.
C20_Witness ==
  /\ pc = "tool_round"
  /\ calls_in_run = 2
  /\ Len(messages) = MaxTurns
  /\ response.stop_reason = "tool_use"

\* C21: one conversation is processed strictly sequentially: an invocation
\* of a round is made only when all requests before it have been handled
\* and it is the next request in order; a backend call is made only from
\* the loop head, and after a round only when the round's tool_result turn
\* has been appended; and an input is taken only when no run is under way.
C21_StrictlySequential ==
  [][ /\ IterationStep =>
           /\ pc = "tool_round"
           /\ req_idx <= Len(tool_requests)
           /\ Len(tool_result_parts) = req_idx - 1
           /\ last_call'.id = tool_requests[req_idx].toolUse.toolUseId
           /\ ToolResultIds(tool_result_parts)
                = SubSeq(ToolUseIds(response.parts), 1, req_idx - 1)
      /\ calls_in_run' = calls_in_run + 1 =>
           /\ pc = "sending"
           /\ calls_in_run > 0 =>
                /\ IsToolResultTurn(Len(messages))
                /\ ToolResultIds(messages[Len(messages)].content)
                     = ToolUseIds(response.parts)
      /\ (calls_in_run' < calls_in_run
          \/ (pc' = "sending" /\ calls_in_run' = 0)) => pc = "awaiting"
    ]_vars

\* In a round of two requests the first invocation has finished and the
\* second has not been made.
C21_Witness ==
  /\ pc = "tool_round"
  /\ Len(tool_requests) = 2
  /\ req_idx = 2
  /\ Len(tool_result_parts) = 1
  /\ last_call.id = tool_requests[1].toolUse.toolUseId

\* C22: the catalog handed to the backend holds no two tools of the same
\* name, whatever the sessions expose.
C22_CatalogNamesUnique ==
  \A a, b \in 1..Len(catalog) : a # b => catalog[a] # catalog[b]

\* The texts of the textual items of what call_tool returned, in output
\* order; none for a missing output.
TextualItems(out) ==
  LET items == IF out.isNone THEN <<>> ELSE out.content
      textual == SelectSeq(items, LAMBDA item : item.type = "text")
  IN [k \in 1..Len(textual) |-> textual[k].text]

\* C23: when a tool call returns without raising, the content of the result
\* part is one string, the serialization of the list of the texts of the
\* output's textual items in output order, the other items being dropped
\* and a missing output giving the empty list; the status is success unless
\* the output is flagged as an error, and then it is error.
C23_ResultContentSerialized ==
  [][ (IterationStep /\ last_call'.how = "call_returned") =>
        LET out == last_call'.out
            text == NewPart.toolResult.content[1].text
        IN /\ OnePartAppended
           /\ DOMAIN NewPart = {"toolResult"}
           /\ NewPart.toolResult.toolUseId = last_call'.id
           /\ Len(NewPart.toolResult.content) = 1
           /\ DOMAIN NewPart.toolResult.content[1] = {"text"}
           /\ text = "[" \o JoinWith(", ", QuoteAll(TextualItems(out))) \o "]"
           /\ out = CallNone => text = "[]"
           /\ out = CallResult(<<ImageItem, TextItem("ok")>>, FALSE)
                => text = "[\"ok\"]"
           /\ out = CallResult(<<TextItem("a"), ImageItem, TextItem("b")>>,
                               FALSE)
                => text = "[\"a\", \"b\"]"
           /\ NewPart.toolResult.status
                = IF ~out.isNone /\ out.isError THEN "error" ELSE "success"
    ]_vars

\* A round of three requests got an output of two texts around an image, an
\* output flagged as an error and no output at all.
C23_Witness ==
  /\ Len(tool_result_parts) = 3
  /\ \E a, b, c \in 1..3 :
       /\ tool_result_parts[a].toolResult.content[1].text = "[\"a\", \"b\"]"
       /\ tool_result_parts[a].toolResult.status = "success"
       /\ tool_result_parts[b].toolResult.content[1].text = "[\"bad\"]"
       /\ tool_result_parts[b].toolResult.status = "error"
       /\ tool_result_parts[c].toolResult.content[1].text = "[]"
       /\ tool_result_parts[c].toolResult.status = "success"

\* C24: the log handed to the backend never holds two consecutive turns of
\* the same role: at every backend call it starts with a user turn and
\* alternates between user and assistant.
C24_RolesAlternate ==
  calls_in_run > 0 =>
    /\ sent # <<>>
    /\ sent[1].role = "user"
    /\ \A i \in 1..(Len(sent) - 1) : sent[i].role # sent[i + 1].role

\* C25: a tool_result turn is appended only when the assistant turn just
\* appended holds a toolUse part, and it then holds a toolResult part; and
\* no turn appended to the log has an empty content, whatever the backend
\* returns.
C25_NoEmptyTurn ==
  [][ /\ (pc = "tool_round" /\ pc' = "sending") =>
           /\ IsAssistant(Len(messages))
           /\ ToolUseIds(messages[Len(messages)].content) # <<>>
           /\ ToolResultIds(messages'[Len(messages')].content) # <<>>
      /\ \A i \in (Len(messages) + 1)..Len(messages') :
           messages'[i].content # <<>>
    ]_vars

\* C26: every tool call the stream handler emits at a stop event carries
\* the name given by a tool_use start event for its index, whatever the
\* sequence of events: no call with an empty name is emitted; and a stop
\* for an index without entry emits nothing and leaves the state as it is.
C26_EmittedCallsAreNamed ==
  [][ (StreamStep /\ Arrived.type = "content_block_stop") =>
        IF Arrived.index \in DOMAIN tool_calls
        THEN /\ tool_calls[Arrived.index].name # ""
             /\ LastStart(events, Arrived.index) > 0
             /\ tool_calls[Arrived.index].name
                  = events[LastStart(events, Arrived.index)].name
        ELSE /\ display' = display
             /\ tool_calls' = tool_calls
             /\ response_text' = response_text
    ]_vars

\* C27: when the processing of a command-style input fails (no argument
\* word, or get_prompt raises), the failure leaves run(), the log is what
\* it was before the input and no backend call is made; and an input that
\* is a command without argument word always fails so.
C27_FailedCommandLeavesLog ==
  [][ /\ ( /\ pc = "awaiting"
           /\ IsCommand(query')
           /\ raised_in' = "_process_query" ) =>
           /\ outcome' = "raised"
           /\ pc' = "awaiting"
           /\ messages' = messages
           /\ calls_in_run' = 0
           /\ sent' = <<>>
      /\ ( /\ pc = "awaiting"
           /\ query' # query \/ outcome' # outcome \/ messages' # messages
           /\ IsCommand(query')
           /\ Len(split(query')) < 2 ) =>
           /\ raised_in' = "_process_query"
           /\ messages' = messages
    ]_vars

\* After a run that left two turns in the log, the input "/summary" has
\* failed and the log still holds those two turns.
C27_Witness ==
  /\ pc = "awaiting"
  /\ outcome = "raised"
  /\ raised_in = "_process_query"
  /\ query = "/summary"
  /\ calls_in_run = 0
  /\ Len(messages) = 2
  /\ IsAssistant(2)

\* C28: an MCPClient serves requests only between connect and cleanup: a
\* request issued before the first connect, or after a cleanup with no
\* connect since, ended with ConnectionError and reached no session, and
\* after cleanup (until the next connect) the client holds no session.
C28_ServesOnlyBetweenConnectAndCleanup ==
  /\ ( /\ phase \in {"new", "cleaned"}
       /\ last_op.op \in RequestNames ) =>
       /\ last_op.outcome = "ConnectionError"
       /\ last_op.reached = NoSession
  /\ phase = "cleaned" => _session = NoSession

\* The directory a location lies in: a file's containing directory, a
\* directory itself.
Container(loc) == IF loc \in Files THEN UpTo(loc) ELSE loc

\* The requested path of the last tool call exists, and the location it
\* denotes lies inside one of the roots the client reported for that call.
Permitted ==
  LET loc == Locate(Path(server_call.path))
  IN /\ loc # Missing
     /\ \E i \in 1..Len(server_call.roots) :
          LET root == Locate(file_url_to_path(server_call.roots[i]))
          IN /\ root # Missing
             /\ Len(root) <= Len(Container(loc))
             /\ SubSeq(Container(loc), 1, Len(root)) = root

\* C29: read_dir and convert_video act on a requested path only if it exists
\* and the location it denotes (for a file, its directory) lies inside a
\* root the client reports at that moment; otherwise they raise ValueError
\* and read or convert nothing.
C29_ActsOnlyInsideRoots ==
  (server_call.tool # "none" /\ ~Permitted) =>
     /\ server_call.outcome = "ValueError"
     /\ server_call.acted_on = Missing

\* What an event of the queue is, in the words of the claim.
EventLabel(event) ==
  IF event.kind = "task" THEN "submission"
  ELSE IF event.kind = "artifact-update" THEN "artifact"
  ELSE IF event.state = "completed" /\ event.final THEN "completion"
  ELSE IF event.state = "working" /\ event.text = "" THEN "working"
  ELSE IF event.state = "working" /\ endswith(event.text, " (1/4)") THEN "1/4"
  ELSE IF event.state = "working" /\ endswith(event.text, " (2/4)") THEN "2/4"
  ELSE IF event.state = "working" /\ endswith(event.text, " (3/4)") THEN "3/4"
  ELSE IF event.state = "working" /\ endswith(event.text, " (4/4)") THEN "4/4"
  ELSE "other"

EmittedLabels == [k \in 1..Len(event_queue) |-> EventLabel(event_queue[k])]

FixedOrder ==
  (IF current_task THEN <<>> ELSE <<"submission">>)
    \o <<"working", "1/4", "2/4", "3/4", "4/4", "artifact", "completion">>

\* C30: execute emits its events in one fixed order: the task submission
\* (only when the request has no current task), the transition to working,
\* the four progress updates 1/4 to 4/4, exactly one artifact, then the
\* completion status; what has been emitted is always a beginning of that
\* order, and all of it once execute has returned, so the artifact precedes
\* completion and nothing follows completion.
C30_EventsInFixedOrder ==
  /\ Len(EmittedLabels) <= Len(FixedOrder)
  /\ EmittedLabels = SubSeq(FixedOrder, 1, Len(EmittedLabels))
  /\ exec_pc = "done" => EmittedLabels = FixedOrder
  /\ \A k \in 1..Len(event_queue) :
       event_queue[k].final => /\ k = Len(event_queue)
                               /\ exec_pc = "done"

\* A request without a current task has been executed to the end and its
\* client has read the whole stream; so has, in another state, a request
\* that continues a task.
C30_Witness ==
  /\ exec_pc = "done"
  /\ ~current_task
  /\ Len(event_queue) = 8
  /\ client_pc = "ended"
  /\ received = 8
====
